---- MODULE Spec2Model ----
(***************************************************************************)
(* Model of the ModelSerializer of gin-rest-framework                      *)
(* (pkg/serializers/model.go): the field registry and its operations, and  *)
(* the per-request transformations ToInternalValue and ToRepresentation,   *)
(* together with the text (un)marshal converters.                          *)
(*                                                                         *)
(* Go maps are modelled as TLA+ functions over a finite set of string      *)
(* keys.  Go's map iteration order is unspecified: every loop over a map   *)
(* is modelled over a nondeterministically chosen permutation of its keys. *)
(* logrus.Fatalf ends the process (os.Exit): it sets halted, after which   *)
(* no operation runs.                                                      *)
(***************************************************************************)
EXTENDS Integers, Sequences, FiniteSets, TLC

\* ------------------------------------------------------------------ bounds
MaxAttrs == 2         \* attributes of the entity type
MaxOps == 1           \* registry operations before the requests of Spec
MaxRegistryOps == 2   \* registry operations of SpecRegistry
MaxRawKeys == 2       \* keys of one wire map / internal value
MaxPassed == 2        \* length of a passedFields list
MaxStrLen == 1        \* length of a wire string

\* ------------------------------------------------------------------ values
\* A Go `any` value.  All values share one record shape: t is the dynamic
\* type, s the characters of a string, n the number of a typed value.
Chars == {"1", "x"}

Nil == [t |-> "nil", s |-> <<>>, n |-> 0]
Str(s) == [t |-> "string", s |-> s, n |-> 0]
IntVal(n) == [t |-> "int", s |-> <<>>, n |-> n]
\* A value of the attribute's type T, and the *T made by reflect.New.
Typed(n) == [t |-> "typed", s |-> <<>>, n |-> n]
Ptr(n) == [t |-> "ptr", s |-> <<>>, n |-> n]

RECURSIVE SeqsUpTo(_, _)
SeqsUpTo(S, n) ==
  IF n = 0 THEN {<<>>}
  ELSE LET shorter == SeqsUpTo(S, n - 1)
       IN shorter \cup {Append(q, x) : q \in shorter, x \in S}

Strings == SeqsUpTo(Chars, MaxStrLen)

EmptyMap == [k \in {} |-> Nil]

\* Go map lookup m[k]: the zero value (nil) when k is absent.
Lookup(m, k) == IF k \in DOMAIN m THEN m[k] ELSE Nil

Perms(S) == {p \in [1..Cardinality(S) -> S] : \A i, j \in 1..Cardinality(S) : p[i] = p[j] => i = j}

\* ------------------------------------------------------------------ errors
NoErr == [kind |-> "none", FieldErrors |-> EmptyMap, field |-> "", cause |-> ""]
\* err.Error() of a failed conversion, and the message of line 46.
ConvMsg(cause) == [text |-> cause, field |-> "", accepted |-> <<>>]
NotAcceptedMsg(field, existingFields) ==
  [text |-> "is not accepted by this endpoint, accepted fields", field |-> field,
   accepted |-> existingFields]
ValidationError(fieldErrors) ==
  [kind |-> "ValidationError", FieldErrors |-> fieldErrors, field |-> "", cause |-> ""]
\* fmt.Errorf("Failed to serialize field `%s` from database: %s", k, err)
FromDBError(field, cause) ==
  [kind |-> "Failed to serialize field from database", FieldErrors |-> EmptyMap,
   field |-> field, cause |-> cause]
WrappedError(field, cause) ==
  [kind |-> "Failed to serialize field to representation", FieldErrors |-> EmptyMap,
   field |-> field, cause |-> cause]
Panic == [kind |-> "panic", FieldErrors |-> EmptyMap, field |-> "", cause |-> ""]

\* ------------------------------------------------- the attribute type's codec
\* The entity attribute type T with the text capability: a decimal number.
DigitOf(c) == CASE c = "0" -> 0 [] c = "1" -> 1 [] c = "2" -> 2 [] c = "3" -> 3
                [] c = "4" -> 4 [] c = "5" -> 5 [] c = "6" -> 6 [] c = "7" -> 7
                [] c = "8" -> 8 [] c = "9" -> 9 [] OTHER -> -1
CharOf(d) == CASE d = 0 -> "0" [] d = 1 -> "1" [] d = 2 -> "2" [] d = 3 -> "3"
               [] d = 4 -> "4" [] d = 5 -> "5" [] d = 6 -> "6" [] d = 7 -> "7"
               [] d = 8 -> "8" [] OTHER -> "9"

RECURSIVE ParseDigits(_, _)
ParseDigits(s, acc) ==
  IF s = <<>> THEN acc ELSE ParseDigits(Tail(s), acc * 10 + DigitOf(Head(s)))

\* (*T).UnmarshalText: an error on the empty text and on a non-digit.
UnmarshalText(s) ==
  IF s = <<>> \/ \E i \in 1..Len(s) : DigitOf(s[i]) < 0
  THEN [n |-> 0, err |-> "invalid text"]
  ELSE [n |-> ParseDigits(s, 0), err |-> ""]

RECURSIVE FormatDigits(_)
FormatDigits(n) ==
  IF n < 10 THEN <<CharOf(n)>> ELSE Append(FormatDigits(n \div 10), CharOf(n % 10))

\* T.MarshalText: the zero value is not marshalable.
MarshalText(n) ==
  IF n = 0 THEN [s |-> <<>>, err |-> "zero value"]
  ELSE [s |-> FormatDigits(n), err |-> ""]

\* ------------------------------------------------------------- the entity type
\* One struct field of Model, as reflect.VisibleFields reports it: its json
\* tag ("" when it has none), whether it is embedded, and what its type
\* offers: listed in the FieldTypeMapper ("mapped"), text (un)marshaler
\* ("text"), or a type for which detection of the representation ("norep")
\* or of the internal value ("noint") function fails.
Tags == {"", "id", "name"}
Caps == {"mapped", "text", "norep", "noint"}
\* An embedded struct is untagged and of a plain type.
Attrs == [tag : Tags, Anonymous : {FALSE}, cap : Caps]
           \cup [tag : {""}, Anonymous : {TRUE}, cap : {"mapped"}]
EntityTypes == SeqsUpTo(Attrs, MaxAttrs)
\* The entity types the requests are checked on: tagged or untagged
\* attributes whose conversions are detected.
RequestEntityTypes ==
  SeqsUpTo({a \in Attrs : ~a.Anonymous /\ a.cap \in {"mapped", "text"}}, MaxAttrs)

NoSettings == [found |-> FALSE, itsType |-> "", isEncodingTextMarshaler |-> FALSE,
               isEncodingTextUnmarshaler |-> FALSE]

RECURSIVE getFieldSettingsFrom(_, _, _)
getFieldSettingsFrom(attrs, fieldName, settings) ==
  IF attrs = <<>> THEN settings
  ELSE LET field == Head(attrs)
       IN getFieldSettingsFrom(Tail(attrs), fieldName,
            IF field.tag = fieldName
            THEN [found |-> TRUE, itsType |-> field.cap,
                  isEncodingTextMarshaler |-> field.cap = "text",
                  isEncodingTextUnmarshaler |-> field.cap = "text"]
            ELSE settings)

\* getFieldSettings: the last visible field whose json tag is fieldName.
getFieldSettings(entity, fieldName) == getFieldSettingsFrom(entity, fieldName, NoSettings)

\* ------------------------------------------------------------- converters
\* A types.ConvertFunc result: the value, the error ("" is nil) and whether
\* the call panicked instead of returning.
Ok(v) == [val |-> v, err |-> "", panic |-> FALSE]
Failed(v, e) == [val |-> v, err |-> e, panic |-> FALSE]
Panicked == [val |-> Nil, err |-> "", panic |-> TRUE]

\* types.ConvertPassThrough
ConvertPassThrough(v) == Ok(v)

\* Faulty variant: the string is never unmarshalled.
DecodeAlwaysPassthrough(settings, v) == ConvertPassThrough(v)

\* The closure returned by DecodeFromStringOrPassthrough, applied to v.
DecodeFromStringOrPassthrough(settings, v) ==
  IF v.t = "string"
  THEN IF settings.isEncodingTextUnmarshaler
       THEN LET r == UnmarshalText(v.s)
            IN IF r.err = "" THEN Ok(Ptr(r.n)) ELSE Failed(Ptr(r.n), r.err)
       ELSE ConvertPassThrough(v)
  ELSE ConvertPassThrough(v)

\* The closure returned by EncodeToStringOrPassthrough, applied to v; the
\* type assertion v.(encoding.TextMarshaler) panics on any other value.
EncodeToStringOrPassthrough(settings, v) ==
  IF settings.isEncodingTextMarshaler
  THEN IF v.t \notin {"typed", "ptr"} THEN Panicked
       ELSE LET r == MarshalText(v.n)
            IN IF r.err # "" THEN Failed(Nil, r.err) ELSE Ok(Str(r.s))
  ELSE ConvertPassThrough(v)

\* A conversion function held by a field: which function it is, and the
\* field settings its closure captured.
PassFunc == [fn |-> "ConvertPassThrough", settings |-> NoSettings]
DecodeFunc(settings) == [fn |-> "DecodeFromStringOrPassthrough", settings |-> settings]
EncodeFunc(settings) == [fn |-> "EncodeToStringOrPassthrough", settings |-> settings]

Convert(cf, v) ==
  CASE cf.fn = "DecodeFromStringOrPassthrough" -> DecodeFromStringOrPassthrough(cf.settings, v)
    [] cf.fn = "EncodeToStringOrPassthrough" -> EncodeToStringOrPassthrough(cf.settings, v)
    [] OTHER -> ConvertPassThrough(v)

\* ConvertFuncToInternalValueFuncAdapter / ConvertFuncToRepresentationFuncAdapter:
\* the converter applied to the map's entry under the field's name.
ConvertFuncToInternalValueFuncAdapter(cf, reprModel, name) == Convert(cf, Lookup(reprModel, name))
ConvertFuncToRepresentationFuncAdapter(cf, intVal, name) == Convert(cf, Lookup(intVal, name))

\* ------------------------------------------------------------------ fields
\* fields.NewField(name).WithRepresentationFunc(r).WithInternalValueFunc(i):
\* readable and writable by default, the storage value taken as it is.
NewField(name, toRepresentation, toInternalValue) ==
  [name |-> name, Readable |-> TRUE, Writable |-> TRUE,
   RepresentationFunc |-> toRepresentation, InternalValueFunc |-> toInternalValue,
   FromDBFunc |-> PassFunc]

\* ------------------------------------------------------------- serializer
Range(q) == {q[i] : i \in 1..Len(q)}

\* Faulty variants: the Writable / Readable check is missing.
ConvertsNonWritable(field) == FALSE
ConvertsNonReadable(field) == FALSE

\* line 30: a registered field that is not writable is skipped.
SkipsOnInput(field) == ~field.Writable

\* line 56: a registered field that is not readable is skipped.
SkipsOnOutput(field) == ~field.Readable

\* The result of a serializer call: the returned map (isNil when the call
\* returned nil for it), the returned error, and the names of the fields
\* whose conversion function the call invoked.
Result(isNil, val, err, invoked) ==
  [isNil |-> isNil, val |-> val, err |-> err, invoked |-> invoked]

\* The loop of ToInternalValue (lines 24-38) over the keys of raw in the
\* order `order`; st carries intVMap, superfluousFields and the early return.
RECURSIVE ToInternalValueLoop(_, _, _, _)
ToInternalValueLoop(F, raw, order, st) ==
  IF order = <<>> THEN st
  ELSE LET k == Head(order)
       IN IF k \notin DOMAIN F
          THEN ToInternalValueLoop(F, raw, Tail(order),
                 [st EXCEPT !.superfluousFields = Append(@, k)])
          ELSE IF SkipsOnInput(F[k])
          THEN ToInternalValueLoop(F, raw, Tail(order), st)
          ELSE LET r == ConvertFuncToInternalValueFuncAdapter(F[k].InternalValueFunc, raw, F[k].name)
                   inv == st.invoked \cup {k}
               IN IF r.panic
                  THEN [st EXCEPT !.returned = TRUE, !.err = Panic, !.invoked = inv]
                  ELSE IF r.err # ""
                  THEN [st EXCEPT !.returned = TRUE, !.invoked = inv,
                          !.err = ValidationError([f \in {k} |-> <<ConvMsg(r.err)>>])]
                  ELSE ToInternalValueLoop(F, raw, Tail(order),
                         [st EXCEPT !.invoked = inv,
                            !.intVMap = [f \in DOMAIN @ \cup {k} |-> IF f = k THEN r.val ELSE @[f]]])

\* ModelSerializer.ToInternalValue: order is the iteration order of raw,
\* fieldOrder the iteration order of s.Fields at line 42.
ToInternalValue(F, raw, order, fieldOrder) ==
  LET st == ToInternalValueLoop(F, raw, order,
              [intVMap |-> EmptyMap, superfluousFields |-> <<>>, returned |-> FALSE,
               err |-> NoErr, invoked |-> {}])
  IN IF st.returned THEN Result(TRUE, EmptyMap, st.err, st.invoked)
     ELSE IF Len(st.superfluousFields) > 0
     THEN LET existingFields == [i \in 1..Len(fieldOrder) |-> F[fieldOrder[i]].name]
              errMap == [f \in Range(st.superfluousFields) |->
                           <<NotAcceptedMsg(f, existingFields)>>]
          IN Result(TRUE, EmptyMap, ValidationError(errMap), st.invoked)
     ELSE Result(FALSE, st.intVMap, NoErr, st.invoked)

\* The loop of ToRepresentation (lines 55-67) over s.Fields in the order `order`.
RECURSIVE ToRepresentationLoop(_, _, _, _)
ToRepresentationLoop(F, intVal, order, st) ==
  IF order = <<>> THEN st
  ELSE LET field == F[Head(order)]
       IN IF SkipsOnOutput(field)
          THEN ToRepresentationLoop(F, intVal, Tail(order), st)
          ELSE LET r == ConvertFuncToRepresentationFuncAdapter(field.RepresentationFunc, intVal, field.name)
                   inv == st.invoked \cup {field.name}
               IN IF r.panic
                  THEN [st EXCEPT !.returned = TRUE, !.err = Panic, !.invoked = inv]
                  ELSE IF r.err # ""
                  THEN [st EXCEPT !.returned = TRUE, !.invoked = inv,
                          !.err = WrappedError(field.name, r.err)]
                  ELSE ToRepresentationLoop(F, intVal, Tail(order),
                         [st EXCEPT !.invoked = inv,
                            !.raw = [f \in DOMAIN @ \cup {field.name} |->
                                       IF f = field.name THEN r.val ELSE @[f]]])

\* Faulty variant: the map built so far is returned beside the error.
ToRepresentationPartial(F, intVal, order) ==
  LET st == ToRepresentationLoop(F, intVal, order,
              [raw |-> EmptyMap, returned |-> FALSE, err |-> NoErr, invoked |-> {}])
  IN Result(FALSE, st.raw, st.err, st.invoked)

\* ModelSerializer.ToRepresentation
ToRepresentation(F, intVal, order) ==
  LET st == ToRepresentationLoop(F, intVal, order,
              [raw |-> EmptyMap, returned |-> FALSE, err |-> NoErr, invoked |-> {}])
  IN IF st.returned THEN Result(TRUE, EmptyMap, st.err, st.invoked)
     ELSE Result(FALSE, st.raw, NoErr, st.invoked)

\* Field.FromDB: the field's storage function applied to the row's value
\* under the field's name.
FieldFromDB(field, raw) == Convert(field.FromDBFunc, Lookup(raw, field.name))

\* Faulty variant: a storage key that is no registered field is an error.
RejectsUnregisteredKey(st, k) ==
  [st EXCEPT !.returned = TRUE, !.err = FromDBError(k, "unknown field")]

\* lines 75-77 of FromDB: a key that is no registered field is passed over.
OnUnregisteredKey(st, k) == st

\* The loop of FromDB (lines 73-83) over the keys of raw in the order `order`.
RECURSIVE FromDBLoop(_, _, _, _)
FromDBLoop(F, raw, order, st) ==
  IF order = <<>> THEN st
  ELSE LET k == Head(order)
       IN IF k \notin DOMAIN F
          THEN LET skipped == OnUnregisteredKey(st, k)
               IN IF skipped.returned THEN skipped
                  ELSE FromDBLoop(F, raw, Tail(order), skipped)
          ELSE LET r == FieldFromDB(F[k], raw)
                   inv == st.invoked \cup {k}
               IN IF r.panic
                  THEN [st EXCEPT !.returned = TRUE, !.err = Panic, !.invoked = inv]
                  ELSE IF r.err # ""
                  THEN [st EXCEPT !.returned = TRUE, !.invoked = inv,
                          !.err = FromDBError(k, r.err)]
                  ELSE FromDBLoop(F, raw, Tail(order),
                         [st EXCEPT !.invoked = inv,
                            !.intVMap = [f \in DOMAIN @ \cup {k} |-> IF f = k THEN r.val ELSE @[f]]])

\* ModelSerializer.FromDB
FromDB(F, raw, order) ==
  LET st == FromDBLoop(F, raw, order,
              [intVMap |-> EmptyMap, returned |-> FALSE, err |-> NoErr, invoked |-> {}])
  IN IF st.returned THEN Result(TRUE, EmptyMap, st.err, st.invoked)
     ELSE Result(FALSE, st.intVMap, NoErr, st.invoked)

\* ------------------------------------------------------ conversion detection
Detected(cf) == [fn |-> cf, err |-> FALSE]
NotDetected == [fn |-> PassFunc, err |-> TRUE]

\* toRepresentationFuncDetector.ToRepresentation(field): the provider chain.
\* A type of the FieldTypeMapper converts by pass-through, a text marshaler
\* by EncodeToStringOrPassthrough; a name that is no attribute of the
\* entity, or a type no provider can handle, is an error.
DetectToRepresentation(entity, field) ==
  LET settings == getFieldSettings(entity, field)
  IN IF ~settings.found \/ settings.itsType = "norep" THEN NotDetected
     ELSE IF settings.itsType = "text" THEN Detected(EncodeFunc(settings))
     ELSE Detected(PassFunc)

\* toInternalValueFuncDetector.ToInternalValue(field)
DetectToInternalValue(entity, field) ==
  LET settings == getFieldSettings(entity, field)
  IN IF ~settings.found \/ settings.itsType = "noint" THEN NotDetected
     ELSE IF settings.itsType = "text" THEN Detected(DecodeFunc(settings))
     ELSE Detected(PassFunc)

\* s.FieldTypeMapper.ToRepresentation(attributeType) / ToInternalValue: only
\* the types listed in the mapper have a converter.
MapperToRepresentation(attributeType) ==
  IF attributeType \in {"mapped", "noint"} THEN Detected(PassFunc) ELSE NotDetected
MapperToInternalValue(attributeType) ==
  IF attributeType \in {"mapped", "norep"} THEN Detected(PassFunc) ELSE NotDetected

\* ------------------------------------------------------------ the registry
LogEntry(level, op, field) == [level |-> level, op |-> op, field |-> field]

Put(F, k, field) == [f \in DOMAIN F \cup {k} |-> IF f = k THEN field ELSE F[f]]

\* Faulty variant: the detection error is logged and the build stops quietly.
DetectionErrorLogged(st, field) ==
  [st EXCEPT !.log = @ \cup {LogEntry("debug", "WithModelFields", field)}]

\* What WithModelFields does when a detector returns an error (lines 125-132):
\* logrus.Fatalf.
OnDetectionError(st, field) ==
  [st EXCEPT !.halted = TRUE,
             !.log = @ \cup {LogEntry("fatal", "WithModelFields", field)}]

\* The loop of WithModelFields (lines 123-140).
RECURSIVE WithModelFieldsLoop(_, _, _)
WithModelFieldsLoop(entity, passedFields, st) ==
  IF passedFields = <<>> THEN st
  ELSE LET field == Head(passedFields)
           toRepresentation == DetectToRepresentation(entity, field)
           toInternalValue == DetectToInternalValue(entity, field)
       IN IF toRepresentation.err THEN OnDetectionError(st, field)
          ELSE IF toInternalValue.err THEN OnDetectionError(st, field)
          ELSE WithModelFieldsLoop(entity, Tail(passedFields),
                 [st EXCEPT !.Fields = Put(@, field,
                    NewField(field, toRepresentation.fn, toInternalValue.fn))])

\* ModelSerializer.WithModelFields: the registry is emptied and rebuilt.
WithModelFields(entity, passedFields, log) ==
  WithModelFieldsLoop(entity, passedFields,
    [Fields |-> EmptyMap, halted |-> FALSE, log |-> log])

\* The wire name NewModelSerializer takes from a struct field (line 157).
WireName(attr) == attr.tag

\* The loop of NewModelSerializer (lines 155-159): the json tag of every
\* visible field that is not embedded.
RECURSIVE FieldNamesOf(_)
FieldNamesOf(attrs) ==
  IF attrs = <<>> THEN <<>>
  ELSE IF ~Head(attrs).Anonymous
       THEN <<WireName(Head(attrs))>> \o FieldNamesOf(Tail(attrs))
       ELSE FieldNamesOf(Tail(attrs))

\* NewModelSerializer
NewModelSerializer(entity, log) == WithModelFields(entity, FieldNamesOf(entity), log)

\* DetectAttributes: json tag -> type of the non-embedded visible fields;
\* a later field overwrites an earlier one with the same tag.
RECURSIVE DetectAttributesFrom(_, _)
DetectAttributesFrom(attrs, ret) ==
  IF attrs = <<>> THEN ret
  ELSE DetectAttributesFrom(Tail(attrs),
         IF ~Head(attrs).Anonymous THEN Put(ret, Head(attrs).tag, Head(attrs).cap) ELSE ret)
DetectAttributes(entity) == DetectAttributesFrom(entity, [k \in {} |-> ""])

\* The loop of WithExistingFields (lines 210-232 of the earlier revision):
\* a name that is no attribute is fatal; a type without a converter is
\* logged at debug level and converts by pass-through.
RECURSIVE WithExistingFieldsLoop(_, _, _)
WithExistingFieldsLoop(attributeTypes, passedFields, st) ==
  IF passedFields = <<>> THEN st
  ELSE LET field == Head(passedFields)
       IN IF field \notin DOMAIN attributeTypes
          THEN [st EXCEPT !.halted = TRUE,
                          !.log = @ \cup {LogEntry("fatal", "WithExistingFields", field)}]
          ELSE LET rep == MapperToRepresentation(attributeTypes[field])
                   int == MapperToInternalValue(attributeTypes[field])
                   toRepresentation == IF rep.err THEN PassFunc ELSE rep.fn
                   toInternalValue == IF int.err THEN PassFunc ELSE int.fn
                   logged == (IF rep.err THEN {LogEntry("debug", "representation", field)} ELSE {})
                             \cup (IF int.err THEN {LogEntry("debug", "internal value", field)} ELSE {})
               IN WithExistingFieldsLoop(attributeTypes, Tail(passedFields),
                    [st EXCEPT !.log = @ \cup logged,
                               !.Fields = Put(@, field,
                                 NewField(field, toRepresentation, toInternalValue))])

\* ModelSerializer.WithExistingFields (the entity's attributes are no FieldUpdater).
WithExistingFields(entity, passedFields, log) ==
  WithExistingFieldsLoop(DetectAttributes(entity), passedFields,
    [Fields |-> EmptyMap, halted |-> FALSE, log |-> log])

\* Faulty variant: a field whose name is taken is stored under a free key.
WithNewFieldBeside(F, field) ==
  IF field.name \in DOMAIN F /\ DOMAIN F # {"", "id", "name", "extra"}
  THEN Put(F, CHOOSE k \in {"", "id", "name", "extra"} \ DOMAIN F : TRUE, field)
  ELSE Put(F, field.name, field)

\* ModelSerializer.WithNewField: s.Fields[field.Name()] = field
WithNewField(F, field) == Put(F, field.name, field)

\* The update functions handed to WithField: the field is made read-only or
\* write-only, or given the text converter of its attribute type.
Mutators == {"ReadOnly", "WriteOnly", "DecodeFromString", "EncodeToString", "DecodeFromDB"}

\* updateFunc(v): the field after the update; the text converters are fatal
\* when the entity has no attribute of the field's name (lines 192-195, 215-218).
Update(entity, v, updateFunc) ==
  LET settings == getFieldSettings(entity, v.name)
  IN CASE updateFunc = "ReadOnly" -> [field |-> [v EXCEPT !.Writable = FALSE], halted |-> FALSE]
       [] updateFunc = "WriteOnly" -> [field |-> [v EXCEPT !.Readable = FALSE], halted |-> FALSE]
       [] updateFunc = "DecodeFromString" ->
            IF ~settings.found THEN [field |-> v, halted |-> TRUE]
            ELSE [field |-> [v EXCEPT !.InternalValueFunc = DecodeFunc(settings)], halted |-> FALSE]
       [] updateFunc = "DecodeFromDB" ->
            IF ~settings.found THEN [field |-> v, halted |-> TRUE]
            ELSE [field |-> [v EXCEPT !.FromDBFunc = DecodeFunc(settings)], halted |-> FALSE]
       [] OTHER ->
            IF ~settings.found THEN [field |-> v, halted |-> TRUE]
            ELSE [field |-> [v EXCEPT !.RepresentationFunc = EncodeFunc(settings)], halted |-> FALSE]

\* Faulty variant: an unknown name is ignored.
WithFieldSilent(entity, F, name, updateFunc) ==
  IF name \notin DOMAIN F
  THEN [Fields |-> F, halted |-> FALSE, applied |-> FALSE]
  ELSE LET u == Update(entity, F[name], updateFunc)
       IN [Fields |-> [F EXCEPT ![name] = u.field], halted |-> u.halted, applied |-> TRUE]

\* ModelSerializer.WithField: fatal when name is not registered.
WithField(entity, F, name, updateFunc) ==
  IF name \notin DOMAIN F
  THEN [Fields |-> F, halted |-> TRUE, applied |-> FALSE]
  ELSE LET u == Update(entity, F[name], updateFunc)
       IN [Fields |-> [F EXCEPT ![name] = u.field], halted |-> u.halted, applied |-> TRUE]

\* ------------------------------------------------------------------ inputs
Keys == Tags \cup {"extra"}
WireVals == {Str(q) : q \in Strings \ {<<>>}} \cup {IntVal(7)}
InternalVals == {Typed(0), Typed(1), IntVal(7)}
MapsOver(vals) ==
  UNION {[ks -> vals] : ks \in {x \in SUBSET Keys : Cardinality(x) <= MaxRawKeys}}
PassedLists == SeqsUpTo(Keys, MaxPassed)
\* Fields built by the caller for WithNewField.
CallerFields ==
  {[NewField(name, PassFunc, PassFunc) EXCEPT !.Readable = r, !.Writable = w] :
     name \in Keys, r \in BOOLEAN, w \in BOOLEAN}

\* ------------------------------------------------------------------- state
VARIABLES
  entity,   \* the struct fields of Model
  Fields,   \* ModelSerializer.Fields
  phase,    \* "new" before NewModelSerializer, then "built"; "served" after a request
  halted,   \* the process was ended by logrus.Fatalf
  log,      \* what logrus was given
  nOps,     \* registry operations done since construction
  call,     \* the last operation and its arguments
  ret,      \* what the last serializer call returned
  req       \* the create request in CreateModelFunc's handler

vars == <<entity, Fields, phase, halted, log, nOps, call, ret, req>>

NoField == NewField("", PassFunc, PassFunc)
Call(op) == [op |-> op, name |-> "", updateFunc |-> "", passedFields |-> <<>>,
             field |-> NoField, m |-> EmptyMap]
NoResult == Result(TRUE, EmptyMap, NoErr, {})

\* The handler's locals before it runs: where it stands, the stages it has
\* run, rawElement, internalValue, the four error results and the response.
NoRequest ==
  [pc |-> "idle", stages |-> <<>>, rawElement |-> EmptyMap, internalValue |-> EmptyMap,
   parseErr |-> FALSE, fromRawErr |-> FALSE, createErr |-> FALSE, serializeErr |-> FALSE,
   status |-> "none", body |-> EmptyMap]

InitWith(entityTypes) ==
  /\ entity \in entityTypes
  /\ Fields = EmptyMap
  /\ phase = "new"
  /\ halted = FALSE
  /\ log = {}
  /\ nOps = 0
  /\ call = Call("none")
  /\ ret = NoResult
  /\ req = NoRequest

Init == InitWith(RequestEntityTypes)
InitRegistry == InitWith(EntityTypes)

Running == phase = "built" /\ ~halted

DoNewModelSerializer ==
  /\ phase = "new"
  /\ LET st == NewModelSerializer(entity, log)
     IN /\ Fields' = st.Fields
        /\ halted' = st.halted
        /\ log' = st.log
  /\ phase' = "built"
  /\ call' = Call("NewModelSerializer")
  /\ ret' = NoResult
  /\ UNCHANGED <<entity, nOps, req>>

DoWithModelFields(maxOps) ==
  /\ Running /\ nOps < maxOps
  /\ \E passedFields \in PassedLists :
       LET st == WithModelFields(entity, passedFields, log)
       IN /\ Fields' = st.Fields
          /\ halted' = st.halted
          /\ log' = st.log
          /\ call' = [Call("WithModelFields") EXCEPT !.passedFields = passedFields]
  /\ nOps' = nOps + 1
  /\ ret' = NoResult
  /\ UNCHANGED <<entity, phase, req>>

DoWithExistingFields(maxOps) ==
  /\ Running /\ nOps < maxOps
  /\ \E passedFields \in PassedLists :
       LET st == WithExistingFields(entity, passedFields, log)
       IN /\ Fields' = st.Fields
          /\ halted' = st.halted
          /\ log' = st.log
          /\ call' = [Call("WithExistingFields") EXCEPT !.passedFields = passedFields]
  /\ nOps' = nOps + 1
  /\ ret' = NoResult
  /\ UNCHANGED <<entity, phase, req>>

DoWithNewField(maxOps) ==
  /\ Running /\ nOps < maxOps
  /\ \E field \in CallerFields :
       /\ Fields' = WithNewField(Fields, field)
       /\ call' = [Call("WithNewField") EXCEPT !.field = field]
  /\ nOps' = nOps + 1
  /\ ret' = NoResult
  /\ UNCHANGED <<entity, phase, halted, log, req>>

DoWithField(maxOps) ==
  /\ Running /\ nOps < maxOps
  /\ \E name \in Keys, updateFunc \in Mutators :
       LET st == WithField(entity, Fields, name, updateFunc)
       IN /\ Fields' = st.Fields
          /\ halted' = st.halted
          /\ log' = IF st.halted THEN log \cup {LogEntry("fatal", "WithField", name)} ELSE log
          /\ call' = [Call("WithField") EXCEPT !.name = name, !.updateFunc = updateFunc]
  /\ nOps' = nOps + 1
  /\ ret' = NoResult
  /\ UNCHANGED <<entity, phase, req>>

DoToInternalValue ==
  /\ Running
  /\ \E raw \in MapsOver(WireVals) :
       \E order \in Perms(DOMAIN raw), fieldOrder \in Perms(DOMAIN Fields) :
         /\ ret' = ToInternalValue(Fields, raw, order, fieldOrder)
         /\ call' = [Call("ToInternalValue") EXCEPT !.m = raw]
  /\ phase' = "served"
  /\ UNCHANGED <<entity, Fields, halted, log, nOps, req>>

DoToRepresentation ==
  /\ Running
  /\ \E intVal \in MapsOver(InternalVals) :
       \E order \in Perms(DOMAIN Fields) :
         /\ ret' = ToRepresentation(Fields, intVal, order)
         /\ call' = [Call("ToRepresentation") EXCEPT !.m = intVal]
  /\ phase' = "served"
  /\ UNCHANGED <<entity, Fields, halted, log, nOps, req>>

DoFromDB ==
  /\ Running
  /\ \E raw \in MapsOver(WireVals) :
       \E order \in Perms(DOMAIN raw) :
         /\ ret' = FromDB(Fields, raw, order)
         /\ call' = [Call("FromDB") EXCEPT !.m = raw]
  /\ phase' = "served"
  /\ UNCHANGED <<entity, Fields, halted, log, nOps, req>>

\* ------------------------------------------------------ CreateModelFunc
\* The stages of one create request, in the order of the handler's statements.
CreateStages == <<"decode", "ToInternalValue", "Create", "ToRepresentation", "write">>

Enter(rq, stage) == [rq EXCEPT !.stages = Append(@, stage)]

\* WriteError(ctx, err); return
WriteErrorAndReturn(rq) == [rq EXCEPT !.pc = "done", !.status = "WriteError"]

\* A panic of a conversion leaves the handler without a response of its own.
PanicOut(rq) == [rq EXCEPT !.pc = "done", !.status = "panic"]

\* line 14-17: ShouldBindJSON fills rawElement or fails.
OnShouldBindJSON(rq, parsed, rawElement) ==
  IF ~parsed THEN WriteErrorAndReturn([rq EXCEPT !.parseErr = TRUE])
  ELSE [rq EXCEPT !.pc = "bound", !.rawElement = rawElement]

\* Faulty variant: the handler goes on to Create whatever ToInternalValue returned.
IgnoresFromRawErr(rq, r) ==
  [rq EXCEPT !.pc = "internal", !.internalValue = r.val, !.fromRawErr = r.err # NoErr]

\* lines 22-26: what the handler does with ToInternalValue's result.
OnToInternalValue(rq, r) ==
  IF r.err = Panic THEN PanicOut([rq EXCEPT !.fromRawErr = TRUE])
  ELSE IF r.err # NoErr THEN WriteErrorAndReturn([rq EXCEPT !.fromRawErr = TRUE])
  ELSE [rq EXCEPT !.pc = "internal", !.internalValue = r.val]

\* What the Query Driver's Create may hand back for an internal value: the
\* value as stored, with or without an "id" the storage assigned.
CreatedFrom(internalValue) ==
  {internalValue} \cup
  {[k \in DOMAIN internalValue \cup {"id"} |-> IF k = "id" THEN v ELSE internalValue[k]] :
     v \in InternalVals}

\* lines 27-31: what the handler does with Create's result.
OnCreate(rq, failed, created) ==
  IF failed THEN WriteErrorAndReturn([rq EXCEPT !.createErr = TRUE])
  ELSE [rq EXCEPT !.pc = "created", !.internalValue = created]

\* lines 32-38: what the handler does with ToRepresentation's result.
OnToRepresentation(rq, r) ==
  IF r.err = Panic THEN PanicOut([rq EXCEPT !.serializeErr = TRUE])
  ELSE IF r.err # NoErr
  THEN [rq EXCEPT !.pc = "done", !.serializeErr = TRUE, !.status = "500"]
  ELSE [rq EXCEPT !.pc = "represented", !.body = r.val]

\* line 39: ctx.JSON(http.StatusCreated, representation)
WriteCreated(rq) == [rq EXCEPT !.pc = "done", !.status = "201"]

CreateDecode ==
  /\ Running /\ req.pc = "idle"
  /\ \/ req' = OnShouldBindJSON(Enter(req, "decode"), FALSE, EmptyMap)
     \/ \E rawElement \in MapsOver(WireVals) :
          req' = OnShouldBindJSON(Enter(req, "decode"), TRUE, rawElement)
  /\ call' = Call("CreateModelFunc")
  /\ phase' = IF req'.pc = "done" THEN "served" ELSE phase
  /\ UNCHANGED <<entity, Fields, halted, log, nOps, ret>>

CreateToInternalValue ==
  /\ Running /\ req.pc = "bound"
  /\ \E order \in Perms(DOMAIN req.rawElement), fieldOrder \in Perms(DOMAIN Fields) :
       /\ ret' = ToInternalValue(Fields, req.rawElement, order, fieldOrder)
       /\ req' = OnToInternalValue(Enter(req, "ToInternalValue"), ret')
  /\ phase' = IF req'.pc = "done" THEN "served" ELSE phase
  /\ UNCHANGED <<entity, Fields, halted, log, nOps, call>>

CreateStore ==
  /\ Running /\ req.pc = "internal"
  /\ \/ req' = OnCreate(Enter(req, "Create"), TRUE, EmptyMap)
     \/ \E created \in CreatedFrom(req.internalValue) :
          req' = OnCreate(Enter(req, "Create"), FALSE, created)
  /\ phase' = IF req'.pc = "done" THEN "served" ELSE phase
  /\ UNCHANGED <<entity, Fields, halted, log, nOps, call, ret>>

CreateToRepresentation ==
  /\ Running /\ req.pc = "created"
  /\ \E order \in Perms(DOMAIN Fields) :
       /\ ret' = ToRepresentation(Fields, req.internalValue, order)
       /\ req' = OnToRepresentation(Enter(req, "ToRepresentation"), ret')
  /\ phase' = IF req'.pc = "done" THEN "served" ELSE phase
  /\ UNCHANGED <<entity, Fields, halted, log, nOps, call>>

CreateWrite ==
  /\ Running /\ req.pc = "represented"
  /\ req' = WriteCreated(Enter(req, "write"))
  /\ phase' = "served"
  /\ UNCHANGED <<entity, Fields, halted, log, nOps, call, ret>>

NextCreate ==
  \/ DoNewModelSerializer
  \/ CreateDecode
  \/ CreateToInternalValue
  \/ CreateStore
  \/ CreateToRepresentation
  \/ CreateWrite

NextRegistry ==
  \/ DoNewModelSerializer
  \/ DoWithModelFields(MaxRegistryOps)
  \/ DoWithExistingFields(MaxRegistryOps)
  \/ DoWithNewField(MaxRegistryOps)
  \/ DoWithField(MaxRegistryOps)

Next ==
  \/ DoNewModelSerializer
  \/ DoWithModelFields(MaxOps)
  \/ DoWithExistingFields(MaxOps)
  \/ DoWithNewField(MaxOps)
  \/ DoWithField(MaxOps)
  \/ DoToInternalValue
  \/ DoToRepresentation
  \/ DoFromDB

\* The serializer is built, customised and then serves one request: a request
\* leaves the serializer as it was, so the requests are independent of each
\* other.  The entity types are those whose registry builds.
Spec == Init /\ [][Next]_vars

\* The registry operations alone, on every entity type.
\* One create request against a freshly built serializer.
SpecCreate == Init /\ [][NextCreate]_vars

SpecRegistry == InitRegistry /\ [][NextRegistry]_vars

\* ------------------------------------------------------------------ claims
\* What the request's conversion of key k returns, for a registered field.
InputConversion(k) == Convert(Fields[k].InternalValueFunc, Lookup(call.m, Fields[k].name))
OutputConversion(k) == Convert(Fields[k].RepresentationFunc, Lookup(call.m, Fields[k].name))

UnknownKeys == DOMAIN call.m \ DOMAIN Fields
FailingKeys ==
  {k \in DOMAIN call.m \cap DOMAIN Fields : Fields[k].Writable /\ InputConversion(k).err # ""}
RegisteredNames == {Fields[k].name : k \in DOMAIN Fields}

\* C1: a wire map with at least one unknown key makes ToInternalValue return
\* no internal value and a ValidationError with an entry for every unknown
\* key, each message listing all registered field names, whatever the other
\* keys are and whatever the order of the visit.
C1_EveryUnknownKeyReported ==
  (call.op = "ToInternalValue" /\ UnknownKeys # {}) =>
    /\ ret.isNil
    /\ ret.err.kind = "ValidationError"
    /\ \A k \in UnknownKeys :
         /\ k \in DOMAIN ret.err.FieldErrors
         /\ \A i \in 1..Len(ret.err.FieldErrors[k]) :
              /\ ret.err.FieldErrors[k][i].field = k
              /\ Range(ret.err.FieldErrors[k][i].accepted) = RegisteredNames

\* C2: when two or more known, writable keys of one wire map fail their
\* conversion, the ValidationError has a FieldErrors entry for each of them.
C2_EveryFailingKeyReported ==
  (call.op = "ToInternalValue" /\ Cardinality(FailingKeys) >= 2) =>
    /\ ret.err.kind = "ValidationError"
    /\ FailingKeys \subseteq DOMAIN ret.err.FieldErrors

\* C3: the key of a registered field with Writable=false is never converted
\* and never appears in the internal value; a wire map with such keys, no
\* unknown key and no failing conversion is accepted without error.
C3_NonWritableSkipped ==
  call.op = "ToInternalValue" =>
    /\ \A k \in DOMAIN call.m \cap DOMAIN Fields :
         ~Fields[k].Writable => k \notin ret.invoked /\ k \notin DOMAIN ret.val
    /\ (UnknownKeys = {} /\ FailingKeys = {}) =>
         /\ ~ret.isNil
         /\ ret.err = NoErr
         /\ DOMAIN ret.val = {k \in DOMAIN call.m : Fields[k].Writable}

C3_Witness ==
  /\ call.op = "ToInternalValue"
  /\ ~ret.isNil /\ ret.err = NoErr
  /\ \E k \in DOMAIN call.m : k \in DOMAIN Fields /\ ~Fields[k].Writable
  /\ \E k \in DOMAIN call.m : k \in DOMAIN ret.val

\* C4: a successful ToRepresentation returns a map whose keys are exactly
\* the names of the fields with Readable=true; a field with Readable=false
\* is not in it, even when the internal value holds a value under its name.
C4_OnlyReadableFields ==
  (call.op = "ToRepresentation" /\ ~ret.isNil) =>
    /\ ret.err = NoErr
    /\ DOMAIN ret.val = {Fields[k].name : k \in {f \in DOMAIN Fields : Fields[f].Readable}}
    /\ \A k \in DOMAIN Fields :
         ~Fields[k].Readable => Fields[k].name \notin DOMAIN ret.val \cup ret.invoked

C4_Witness ==
  /\ call.op = "ToRepresentation" /\ ~ret.isNil
  /\ \E k \in DOMAIN Fields : ~Fields[k].Readable /\ k \in DOMAIN call.m
  /\ \E k \in DOMAIN Fields : Fields[k].Readable /\ k \in DOMAIN ret.val

\* A WithField(name, mutator) step: with a name that is not registered halts the
\* process and leaves the registry as it was; with a registered name the
\* mutator changes that field only and the key set stays the same.
WithFieldStepIsFatalOrUpdates ==
  call'.op = "WithField" =>
    IF call'.name \notin DOMAIN Fields
    THEN halted' /\ Fields' = Fields
    ELSE /\ DOMAIN Fields' = DOMAIN Fields
         /\ \A k \in DOMAIN Fields \ {call'.name} : Fields'[k] = Fields[k]
         /\ halted' => Fields' = Fields
         /\ ~halted' =>
              LET old == Fields[call'.name]
                  new == Fields'[call'.name]
              IN CASE call'.updateFunc = "ReadOnly" -> new = [old EXCEPT !.Writable = FALSE]
                   [] call'.updateFunc = "WriteOnly" -> new = [old EXCEPT !.Readable = FALSE]
                   [] call'.updateFunc = "DecodeFromString" ->
                        /\ new.InternalValueFunc.fn = "DecodeFromStringOrPassthrough"
                        /\ new = [old EXCEPT !.InternalValueFunc = new.InternalValueFunc]
                   [] call'.updateFunc = "DecodeFromDB" ->
                        /\ new.FromDBFunc.fn = "DecodeFromStringOrPassthrough"
                        /\ new = [old EXCEPT !.FromDBFunc = new.FromDBFunc]
                   [] OTHER ->
                        /\ new.RepresentationFunc.fn = "EncodeToStringOrPassthrough"
                        /\ new = [old EXCEPT !.RepresentationFunc = new.RepresentationFunc]

\* C5, as a property of every step: a WithField step with an unregistered name halts the
\* process without touching the registry, and with a registered name it
\* updates that field alone.
C5_WithFieldFatalOnUnknownName == [][WithFieldStepIsFatalOrUpdates]_vars

C5_Witness ==
  /\ call.op = "WithField"
  /\ call.name \notin DOMAIN Fields
  /\ halted
  /\ Fields # EmptyMap

\* The readable fields whose conversion of the internal value returns an error.
FailingOutputs ==
  {k \in DOMAIN Fields : Fields[k].Readable /\ ~OutputConversion(k).panic
                           /\ OutputConversion(k).err # ""}
PanickingOutputs == {k \in DOMAIN Fields : Fields[k].Readable /\ OutputConversion(k).panic}

\* C6: when the conversion of a readable field returns an error,
\* ToRepresentation returns no map at all and one error, which names a
\* failing field and wraps that field's error.
C6_FirstFailureWins ==
  call.op = "ToRepresentation" =>
    /\ (FailingOutputs # {} /\ PanickingOutputs = {}) =>
         ret.err.kind = "Failed to serialize field to representation"
    /\ ret.err.kind = "Failed to serialize field to representation" =>
         /\ ret.isNil /\ ret.val = EmptyMap
         /\ \E k \in FailingOutputs :
              /\ ret.err.field = Fields[k].name
              /\ ret.err.cause = OutputConversion(k).err

C6_Witness ==
  /\ call.op = "ToRepresentation"
  /\ Cardinality(FailingOutputs) >= 2
  /\ ret.isNil
  /\ ret.err.kind = "Failed to serialize field to representation"

\* The names a build of the registry was given.
BuildOps == {"NewModelSerializer", "WithModelFields", "WithExistingFields"}
PassedFields == IF call.op = "NewModelSerializer" THEN FieldNamesOf(entity) ELSE call.passedFields

\* Detection of a conversion function fails for attribute f of the entity.
RepresentationUndetected(f) ==
  IF call.op = "WithExistingFields"
  THEN f \in DOMAIN DetectAttributes(entity)
         /\ MapperToRepresentation(DetectAttributes(entity)[f]).err
  ELSE getFieldSettings(entity, f).found /\ DetectToRepresentation(entity, f).err
InternalValueUndetected(f) ==
  IF call.op = "WithExistingFields"
  THEN f \in DOMAIN DetectAttributes(entity)
         /\ MapperToInternalValue(DetectAttributes(entity)[f]).err
  ELSE getFieldSettings(entity, f).found /\ DetectToInternalValue(entity, f).err

C8_UntaggedAttributesExcluded ==
  (call.op = "NewModelSerializer" /\ ~halted) =>
    /\ DOMAIN Fields = {entity[i].tag : i \in {j \in 1..Len(entity) :
                          ~entity[j].Anonymous /\ entity[j].tag # ""}}
    /\ "" \notin DOMAIN Fields

\* C9: the converter of DecodeFromStringOrPassthrough, for an attribute type
\* with the text-unmarshal capability, parses a string through the type's
\* UnmarshalText (returning its error when it fails) and returns any other
\* input unchanged; for a type without the capability it returns every
\* input unchanged.
C9_DecodeFromStringOrPassthrough ==
  call.op = "ToInternalValue" =>
    \A k \in ret.invoked :
      Fields[k].InternalValueFunc.fn = "DecodeFromStringOrPassthrough" =>
        LET v == call.m[k]
            parsed == UnmarshalText(v.s)
        IN IF getFieldSettings(entity, k).itsType = "text" /\ v.t = "string"
           THEN IF parsed.err # ""
                THEN /\ ret.isNil
                     /\ ret.err = ValidationError([f \in {k} |-> <<ConvMsg(parsed.err)>>])
                ELSE /\ k \notin DOMAIN ret.err.FieldErrors
                     /\ ~ret.isNil => ret.val[k] = Ptr(parsed.n)
           ELSE /\ k \notin DOMAIN ret.err.FieldErrors
                /\ ~ret.isNil => ret.val[k] = v

C9_Witness ==
  /\ call.op = "ToInternalValue"
  /\ ~ret.isNil
  /\ \E k \in ret.invoked :
       /\ Fields[k].InternalValueFunc.fn = "DecodeFromStringOrPassthrough"
       /\ getFieldSettings(entity, k).itsType = "text"
       /\ call.m[k] = Str(<<"1">>)
       /\ ret.val[k] = Ptr(1)

\* C10: the registry never holds two fields of the same name: every key
\* maps to the field of that name, and WithNewField with a name that is
\* already registered replaces the entry.
C10_FieldNamesUnique ==
  /\ \A k \in DOMAIN Fields : Fields[k].name = k
  /\ \A k1, k2 \in DOMAIN Fields : Fields[k1].name = Fields[k2].name => k1 = k2
  /\ call.op = "WithNewField" => Fields[call.field.name] = call.field

C10_Witness ==
  /\ call.op = "WithNewField"
  /\ nOps = 1
  /\ call.field.name \in Range(FieldNamesOf(entity))
  /\ ~call.field.Readable
  /\ Fields[call.field.name] = call.field
  /\ Cardinality(DOMAIN Fields) = Cardinality(Range(FieldNamesOf(entity)))

\* What the storage conversion of key k returns, for a registered field.
StorageConversion(k) == FieldFromDB(Fields[k], call.m)
FailingStorageKeys ==
  {k \in DOMAIN call.m \cap DOMAIN Fields : StorageConversion(k).err # ""}

\* C11: FromDB passes over every storage-row key that is no registered
\* field: such a key is never the cause of an error, and when no conversion
\* fails the internal value has exactly the row's registered keys, each
\* holding what the field's FromDBFunc makes of the row's value (the value
\* itself for the default pass-through function).
C11_FromDBSkipsUnregisteredKeys ==
  call.op = "FromDB" =>
    /\ ret.invoked \subseteq DOMAIN call.m \cap DOMAIN Fields
    /\ ret.err # NoErr =>
         /\ ret.isNil
         /\ ret.err.kind = "Failed to serialize field from database"
         /\ ret.err.field \in FailingStorageKeys
    /\ FailingStorageKeys = {} =>
         /\ ~ret.isNil /\ ret.err = NoErr
         /\ DOMAIN ret.val = DOMAIN call.m \cap DOMAIN Fields
         /\ \A k \in DOMAIN ret.val :
              /\ ret.val[k] = StorageConversion(k).val
              /\ Fields[k].FromDBFunc = PassFunc => ret.val[k] = call.m[k]
              /\ (Fields[k].FromDBFunc # PassFunc /\ call.m[k] = Str(<<"1">>)
                    /\ Fields[k].FromDBFunc.settings.isEncodingTextUnmarshaler)
                   => ret.val[k] = Ptr(1)

C11_Witness ==
  /\ call.op = "FromDB"
  /\ ~ret.isNil
  /\ DOMAIN call.m \ DOMAIN Fields # {}
  /\ DOMAIN ret.val # {}
  /\ DOMAIN ret.val = DOMAIN call.m \cap DOMAIN Fields

IsPrefix(s, t) == Len(s) <= Len(t) /\ \A i \in 1..Len(s) : s[i] = t[i]
Ran(stage) == \E i \in 1..Len(req.stages) : req.stages[i] = stage

\* C12 as stated: the stages of a create request run in the order decode,
\* ToInternalValue, Create, FromDB, ToRepresentation, write, each only after
\* every earlier one succeeded, and 201 is written only after all six.
C12_StagesIncludeFromDB ==
  LET claimed == <<"decode", "ToInternalValue", "Create", "FromDB", "ToRepresentation", "write">>
  IN /\ IsPrefix(req.stages, claimed)
     /\ req.status = "201" => req.stages = claimed

\* C12: the stages of a create request run in the order decode,
\* ToInternalValue, Query Driver Create, ToRepresentation, write; FromDB is
\* not called, ToRepresentation is given Create's result as it is; a stage
\* runs only if every earlier stage succeeded, so Create is never invoked
\* after a failed ToInternalValue, and 201 is written only after all stages
\* succeeded.
C12_CreateStagesInOrder ==
  /\ IsPrefix(req.stages, CreateStages)
  /\ ~Ran("FromDB")
  /\ Ran("ToInternalValue") => ~req.parseErr
  /\ Ran("Create") => ~req.fromRawErr
  /\ Ran("ToRepresentation") => ~req.createErr /\ ~req.fromRawErr
  /\ Ran("write") => ~req.serializeErr /\ ~req.createErr
  /\ req.status = "201" <=> req.stages = CreateStages
  /\ req.status = "201" =>
       /\ ~req.parseErr /\ ~req.fromRawErr /\ ~req.createErr /\ ~req.serializeErr
       /\ \E order \in Perms(DOMAIN Fields) :
            LET r == ToRepresentation(Fields, req.internalValue, order)
            IN r.err = NoErr /\ r.val = req.body
  /\ req.status \in {"WriteError", "500", "panic"} =>
       req.parseErr \/ req.fromRawErr \/ req.createErr \/ req.serializeErr

C12_Witness ==
  /\ req.status = "201"
  /\ req.stages = CreateStages
  /\ DOMAIN req.body # {}

====
